---- MODULE Spec2Model ----
(***************************************************************************)
(* porthos-go: an RPC layer over an AMQP broker.                           *)
(*                                                                         *)
(* Several state machines share this module.                               *)
(*   Spec                        the client: Call.Async / Sync / Void, the *)
(*                               Slot registry, the reply consumer, and    *)
(*                               the server's dispatch of a request and    *)
(*                               responseWriter.Write that answers it.     *)
(*   ServerSpec / FairServerSpec the server's life cycle: setupTopology,   *)
(*                               handleReestablishedConnnection, serve,    *)
(*                               Close, Shutdown and NotifyClose.          *)
(*   ReconnectSpec / FairReconnectSpec                                     *)
(*                               the same without close subscribers and    *)
(*                               without Shutdown.                         *)
(*   DispatchSpec                the processRequest tasks of a serving     *)
(*                               server, step by step: header, lookup,     *)
(*                               reply channel, extensions and handler,    *)
(*                               responseWriter.Write, deferred Close.     *)
(*   ReplySpec                   Sync and Async calls with stray           *)
(*                               deliveries in the reply queue.            *)
(*   TimeoutSpec                 Sync and Async calls over the timeouts    *)
(*                               WithTimeout may be given.                 *)
(* Unsynchronised reads and writes of the server's fields (closed,         *)
(* topologySet, requestChannel, closes) are interleaved one access at a    *)
(* time.                                                                   *)
(***************************************************************************)
EXTENDS Integers, Sequences, FiniteSets, TLC

(* ------------------------------ bounds --------------------------------- *)

\* Concurrent callers of the client; each issues one call.
NumCallers == 2

\* Connection losses, each followed by one reestablishment signal.
MaxSignals == 2

\* Deliveries the broker pushes to the server's consumers.
MaxDeliveries == 1

\* Callers of NotifyClose, besides Shutdown's own.
MaxSubscribers == 2

\* Deliveries the serve loop hands to dispatch tasks, one task each.
NumTasks == 2

\* Extensions added to the server.
MaxExtensions == 2

Callers == 1..NumCallers

Tasks == 1..NumTasks

Extensions == 1..MaxExtensions

(* --------------------------- program values ---------------------------- *)

\* time.Millisecond, in nanoseconds (time.Duration's unit).
Millisecond == 1000000

\* The Client's default TTL: always present and strictly positive.
defaultTTL == 2 * Millisecond

\* The callers' use of WithTimeout: the even-numbered callers set an override
\* of a millisecond and a half, the others leave call.timeout unset (0).
WithTimeout(c) ==
    IF c % 2 = 0 THEN Millisecond + (Millisecond \div 2) ELSE 0

\* The durations callers hand to WithTimeout: negative, zero, under a
\* millisecond, a whole millisecond, and between two whole milliseconds.
Durations ==
    {0 - Millisecond, 0, Millisecond - 1, Millisecond, 12 * Millisecond + 1}

\* Method names a caller may ask for; the server registered only "echo".
MethodNames == {"echo", "missing"}

\* The empty string: no CorrelationId, no Expiration.
EmptyString == <<>>

\* The service's name, which is the name of its queue.
ServiceName == "service"

\* The name of the queue the client declared for its replies.
ResponseQueueName == "amq.gen-reply"

\* The name of the response queue of another client of the service.
OtherQueueName == "amq.gen-other"

\* The status codes a handler answers with.
StatusCodes == {200, 500}

\* The ReplyTo of a publishing that sets none.
NoReplyTo == ""

\* The capacity of a Slot's response channel.
SlotCapacity == 1

Modes == {"sync", "async", "void"}

Subscribers == 1..MaxSubscribers

\* A nil *amqp.Channel, a nil <-chan amqp.Delivery.
NilChannel == 0

VARIABLES
    \* ---- client ----
    pc,           \* caller -> where it is in its call
    mode,         \* caller -> "none" | "sync" | "async" | "void"
    method,       \* caller -> call.method
    timeout,      \* caller -> call.timeout
    slotOf,       \* caller -> number of the Slot its Async created (0: none)
    result,       \* caller -> what its call returned: [ret, err]
    timerFired,   \* caller -> the channel of time.After(getTimeout()) is ready
    replyFirst,   \* caller -> a reply reached its Slot while its timer had not fired
    overlapped,   \* two Sync calls have been waiting in their selects at once
    registry,     \* the Client's registry: numbers of the Slots registered
    slotChan,     \* Slot number -> contents of its response channel
    requestQueue, \* the service's queue at the broker
    replyQueue,   \* the client's response queue at the broker
    dropped,      \* the reply consumer has discarded a delivery
    \* ---- server ----
    methods,        \* the names in the server's method registry
    closed,         \* s.closed
    topologySet,    \* s.topologySet
    channel,        \* s.channel: the number of an AMQP channel, or NilChannel
    requestChannel, \* s.requestChannel: the consumer of that channel, or NilChannel
    m,              \* s.m: the task that holds the mutex, or "free"
    supPc,          \* where handleReestablishedConnnection is
    servePc,        \* where serve is
    serveChan,      \* the channel serve's `range s.requestChannel` ranges over
    closes,         \* s.closes: the receivers NotifyClose handed out
    notifyLen,      \* the length of s.closes when serve's last loop began
    notifyIdx,      \* the receiver serve's last loop is at
    receivers,      \* NotifyClose subscriber -> what it does with its receiver
    closerPc,       \* where the task that calls Close or Shutdown is
    sdTaskPc,       \* where the task Shutdown spawns is
    \* ---- broker ----
    connected,      \* the broker's connection is up
    openChannels,   \* the AMQP channels that are open
    consumers,      \* the channels on which Consume succeeded
    inbox,          \* channel -> deliveries waiting in its consumer
    spawned,        \* channel -> dispatch tasks spawned for its deliveries
    delivered,      \* deliveries the broker has pushed so far
    notifyPending,  \* reestablishment signals sent and not yet received
    losses,         \* connection losses so far
    \* ---- history ----
    signals,        \* reestablishment signals the supervising task received
    setups,         \* runs of setupTopology after construction
    lastSetup,      \* how the last of them ended: "none", "ok", "failed"
    listenings,     \* times the ServerListening extensions were piped through
    \* ---- dispatch ----
    autoAck,        \* s.autoAck
    extensions,     \* s.extensions, in registration order
    taskPc,         \* dispatch task -> where it is in processRequest
    delivery,       \* dispatch task -> the amqp.Delivery it was spawned for
    taskCh,         \* dispatch task -> the channel openChannel returned to it
    events,         \* dispatch task -> what it has called, in order
    response,       \* dispatch task -> the Response its handler left
    writeErr,       \* dispatch task -> what responseWriter.Write returned
    published,      \* the Publish calls of responseWriter.Write, in order
    down            \* the server process has died of an unrecovered panic

clientVars == <<pc, mode, method, timeout, slotOf, result, timerFired, replyFirst,
                overlapped, registry, slotChan, requestQueue, replyQueue, dropped>>

serverVars == <<methods, closed, topologySet, channel, requestChannel, m, supPc,
                servePc, serveChan, closes, notifyLen, notifyIdx, receivers,
                closerPc, sdTaskPc, connected, openChannels, consumers, inbox,
                spawned,
                delivered, notifyPending, losses, signals, setups, lastSetup,
                listenings>>

dispatchVars == <<autoAck, extensions, taskPc, delivery, taskCh, events,
                  response, writeErr, published, down>>

vars == <<clientVars, serverVars, dispatchVars>>

(* ------------------------------ helpers -------------------------------- *)

Digit(n) == n % 10

\* strconv.FormatInt(n, 10) for n >= 0: the decimal digits, most significant first.
RECURSIVE FormatInt(_)
FormatInt(n) ==
    IF n < 10 THEN <<Digit(n)>> ELSE Append(FormatInt(n \div 10), Digit(n))

getTimeout(c) ==
    IF timeout[c] > 0 THEN timeout[c] ELSE defaultTTL

\* The timeout in milliseconds, rounded up to the next whole one.
getTimeoutMillisecondsRoundedUp(c) ==
    LET t == IF timeout[c] > 0 THEN timeout[c] ELSE defaultTTL
    IN  (t + Millisecond - 1) \div Millisecond

getTimeoutMilliseconds(c) ==
    LET t == IF timeout[c] > 0 THEN timeout[c] ELSE defaultTTL
    IN  t \div Millisecond

\* Slot.getCorrelationID: the token that names Slot n on the wire.
getCorrelationID(n) == <<n>>

\* A lookup that falls back on any registered Slot when the correlation ID
\* names none.
lookupOrAny(corr) ==
    IF \E n \in registry : getCorrelationID(n) = corr
      THEN {n \in registry : getCorrelationID(n) = corr}
      ELSE registry

\* The registry's lookup: the registered Slots a correlation ID names.
lookup(corr) == {n \in registry : getCorrelationID(n) = corr}

NoResult == [ret |-> <<>>, err |-> "pending"]

Returned(value, err) == [ret |-> value, err |-> err]

(* ------------------------- the broker's queues ------------------------- *)

\* A publish to the default exchange with routing key `key`: the message is
\* queued where a queue of that name exists, and dropped otherwise.
RouteRequest(queue, key, msg) ==
    IF key = ServiceName THEN Append(queue, msg) ELSE queue

RouteReply(queue, key, msg) ==
    IF key = ResponseQueueName THEN Append(queue, msg) ELSE queue

\* seq without its i-th element.
RemoveAt(seq, i) ==
    [j \in 1..(Len(seq) - 1) |-> IF j < i THEN seq[j] ELSE seq[j + 1]]

(* ------------------------------ the call ------------------------------- *)

\* newCall(client, method) and the builder's WithTimeout / WithBody: the
\* body is the caller's own, so that two calls never carry the same body.
Call(c, kind, name) ==
    /\ pc[c] = "idle"
    /\ pc' = [pc EXCEPT ![c] = "built"]
    /\ mode' = [mode EXCEPT ![c] = kind]
    /\ method' = [method EXCEPT ![c] = name]
    /\ timeout' = [timeout EXCEPT ![c] = WithTimeout(c)]
    /\ UNCHANGED <<serverVars, dispatchVars, dropped, slotOf, result,
                   timerFired, replyFirst, overlapped, registry, slotChan,
                   requestQueue, replyQueue>>

\* newCall(client, "echo").WithTimeout(d), to be ended by Sync or Async.
CallWithTimeout(c, kind, d) ==
    /\ pc[c] = "idle"
    /\ kind \in {"sync", "async"}
    /\ pc' = [pc EXCEPT ![c] = "built"]
    /\ mode' = [mode EXCEPT ![c] = kind]
    /\ method' = [method EXCEPT ![c] = "echo"]
    /\ timeout' = [timeout EXCEPT ![c] = d]
    /\ UNCHANGED <<serverVars, dispatchVars, dropped, slotOf, result,
                   timerFired, replyFirst, overlapped, registry, slotChan,
                   requestQueue, replyQueue>>

\* Async with the correlation ID of the Slot the Client made last, which is
\* another call's when two callers interleave.
AsyncPublishingLastSlot(c) ==
    [method     |-> method[c],
     expiration |-> FormatInt(getTimeoutMilliseconds(c)),
     corr       |-> getCorrelationID(Len(slotChan)),
     replyTo    |-> ResponseQueueName,
     body       |-> c]

\* The amqp.Publishing of Async.
AsyncPublishing(c) ==
    [method     |-> method[c],
     expiration |-> FormatInt(getTimeoutMilliseconds(c)),
     corr       |-> getCorrelationID(slotOf[c]),
     replyTo    |-> ResponseQueueName,
     body       |-> c]

\* Void publishing as Async does, asking for a reply that nobody awaits.
VoidPublishingWithReplyTo(c) ==
    [method     |-> method[c],
     expiration |-> FormatInt(getTimeoutMilliseconds(c)),
     corr       |-> EmptyString,
     replyTo    |-> ResponseQueueName,
     body       |-> c]

\* The amqp.Publishing of Void.
VoidPublishing(c) ==
    [method     |-> method[c],
     expiration |-> EmptyString,
     corr       |-> EmptyString,
     replyTo    |-> NoReplyTo,
     body       |-> c]

\* Async, first statement: the Client makes a new Slot and registers it
\* under a fresh correlation ID.
AsyncNewSlot(c) ==
    /\ pc[c] = "built"
    /\ mode[c] \in {"sync", "async"}
    /\ LET n == Len(slotChan) + 1
       IN  /\ slotChan' = Append(slotChan, <<>>)
           /\ registry' = registry \cup {n}
           /\ slotOf' = [slotOf EXCEPT ![c] = n]
    /\ pc' = [pc EXCEPT ![c] = "publish"]
    /\ UNCHANGED <<serverVars, dispatchVars, dropped, mode, method, timeout,
                   result, timerFired, replyFirst, overlapped, requestQueue,
                   replyQueue>>

\* What Async returns for each outcome of openChannel and Publish, and
\* where its caller goes on: an error ends Async, and Sync with it, with no
\* Slot returned; nothing on that path disposes the Slot made above.
AsyncFailed(c, err) ==
    /\ err \in {"ErrOpenChannel", "ErrPublish"}
    /\ result' = [result EXCEPT ![c] = Returned(<<>>, err)]
    /\ pc' = [pc EXCEPT ![c] = "done"]
    /\ UNCHANGED <<serverVars, dispatchVars, dropped, mode, method, timeout,
                   slotOf, timerFired, replyFirst, overlapped, registry,
                   slotChan, requestQueue, replyQueue>>

\* Async from openChannel on, with the publish accepted by the broker.
\* A Sync caller goes on to `defer slot.Dispose()` and the select, whose
\* time.After starts the timer; an Async caller holds the Slot.
AsyncPublished(c) ==
    /\ requestQueue' = RouteRequest(requestQueue, ServiceName, AsyncPublishing(c))
    /\ IF mode[c] = "sync"
         THEN /\ pc' = [pc EXCEPT ![c] = "select"]
              /\ overlapped' =
                    (overlapped \/ \E d \in Callers \ {c} : pc[d] = "select")
              /\ UNCHANGED result
         ELSE /\ pc' = [pc EXCEPT ![c] = "done"]
              /\ result' = [result EXCEPT ![c] = Returned(<<slotOf[c]>>, "nil")]
              /\ UNCHANGED overlapped
    /\ UNCHANGED <<serverVars, dispatchVars, dropped, mode, method, timeout,
                   slotOf, timerFired, replyFirst, registry, slotChan,
                   replyQueue>>

AsyncPublish(c) ==
    /\ pc[c] = "publish"
    /\ \/ AsyncPublished(c)
       \/ \E err \in {"ErrOpenChannel", "ErrPublish"} : AsyncFailed(c, err)

\* Slot.Dispose: the Slot leaves the registry.
Dispose(n) == registry \ {n}

\* The timer of time.After(c.getTimeout()) fires.
TimerFire(c) ==
    /\ pc[c] = "select"
    /\ ~timerFired[c]
    /\ timerFired' = [timerFired EXCEPT ![c] = TRUE]
    /\ UNCHANGED <<serverVars, dispatchVars, dropped, pc, mode, method,
                   timeout, slotOf, result, replyFirst, overlapped, registry,
                   slotChan, requestQueue, replyQueue>>

\* The cases of Sync's select that can proceed.
ResponseReady(c) == slotChan[slotOf[c]] # <<>>

\* The timer set from call.timeout alone: unset, it fires at once.
TimeoutReadyWithoutDefault(c) == timerFired[c] \/ timeout[c] <= 0

TimeoutReady(c) == timerFired[c]

\* Sync's select takes `case response := <-slot.ResponseChannel()`.
SyncResponse(c) ==
    /\ pc[c] = "select"
    /\ ResponseReady(c)
    /\ result' = [result EXCEPT ![c] = Returned(<<Head(slotChan[slotOf[c]])>>, "nil")]
    /\ slotChan' = [slotChan EXCEPT ![slotOf[c]] = Tail(@)]
    /\ registry' = Dispose(slotOf[c])
    /\ pc' = [pc EXCEPT ![c] = "done"]
    /\ UNCHANGED <<serverVars, dispatchVars, dropped, mode, method, timeout,
                   slotOf, timerFired, replyFirst, overlapped, requestQueue,
                   replyQueue>>

\* Sync's select takes `case <-time.After(c.getTimeout())`.
SyncTimedOut(c) ==
    /\ pc[c] = "select"
    /\ TimeoutReady(c)
    /\ result' = [result EXCEPT ![c] = Returned(<<>>, "ErrTimedOut")]
    /\ registry' = Dispose(slotOf[c])
    /\ pc' = [pc EXCEPT ![c] = "done"]
    /\ UNCHANGED <<serverVars, dispatchVars, dropped, mode, method, timeout,
                   slotOf, timerFired, replyFirst, overlapped, slotChan,
                   requestQueue, replyQueue>>

\* Void: one Publish on the client's channel, whose error is returned.
VoidPublished(c) ==
    /\ requestQueue' = RouteRequest(requestQueue, ServiceName, VoidPublishing(c))
    /\ result' = [result EXCEPT ![c] = Returned(<<>>, "nil")]

VoidFailed(c) ==
    /\ requestQueue' = requestQueue
    /\ result' = [result EXCEPT ![c] = Returned(<<>>, "ErrPublish")]

Void(c) ==
    /\ pc[c] = "built"
    /\ mode[c] = "void"
    /\ \/ VoidPublished(c)
       \/ VoidFailed(c)
    /\ pc' = [pc EXCEPT ![c] = "done"]
    /\ UNCHANGED <<serverVars, dispatchVars, dropped, mode, method, timeout,
                   slotOf, timerFired, replyFirst, overlapped, registry,
                   slotChan, replyQueue>>

\* The holder of a Slot that Async returned disposes it.
SlotDispose(c) ==
    /\ pc[c] = "done"
    /\ mode[c] = "async"
    /\ result[c].err = "nil"
    /\ slotOf[c] \in registry
    /\ registry' = Dispose(slotOf[c])
    /\ UNCHANGED <<serverVars, dispatchVars, dropped, pc, mode, method,
                   timeout, slotOf, result, timerFired, replyFirst,
                   overlapped, slotChan, requestQueue, replyQueue>>

(* ------------------- the server's answer to a request ------------------ *)

\* The handler registered for "echo": the request's body, with status 200.
EchoHandler(d) == [body |-> d.body, statusCode |-> 200]

\* A response published without the delivery's correlation ID.
ReplyPublishingWithoutCorrelationId(d, res) ==
    [corr       |-> EmptyString,
     body       |-> res.body,
     statusCode |-> res.statusCode]

\* The amqp.Publishing of responseWriter.Write for delivery d.
ReplyPublishing(d, res) ==
    [corr       |-> d.corr,
     body       |-> res.body,
     statusCode |-> res.statusCode]

\* responseWriter.Write's publish: to the delivery's ReplyTo.
WritePublish(queue, d, res) ==
    RouteReply(queue, d.replyTo, ReplyPublishing(d, res))

\* A dispatch task, server.processRequest, on the i-th queued request (the
\* tasks run concurrently, so requests are answered in any order).  A
\* registered method's handler runs and its Response is written; the write
\* publishes, or fails with `outcome`.  An unknown method is rejected and
\* nothing is published.
ProcessRequest(i, outcome) ==
    /\ i \in 1..Len(requestQueue)
    /\ LET d == requestQueue[i]
       IN  /\ requestQueue' = RemoveAt(requestQueue, i)
           /\ IF d.method \in methods /\ outcome = "nil"
                THEN replyQueue' = WritePublish(replyQueue, d, EchoHandler(d))
                ELSE replyQueue' = replyQueue
    /\ UNCHANGED <<serverVars, dispatchVars, dropped, pc, mode, method,
                   timeout, slotOf, result, timerFired, replyFirst,
                   overlapped, registry, slotChan>>

(* -------------------------- the reply consumer ------------------------- *)

\* The Response the reply consumer builds from a delivery of the reply queue.
ResponseOf(d) == [body |-> d.body, statusCode |-> d.statusCode, corr |-> d.corr]

\* fulfill: a non-blocking send into the Slot's channel.
Fulfill(n, res) ==
    IF Len(slotChan[n]) < SlotCapacity
      THEN [slotChan EXCEPT ![n] = Append(@, res)]
      ELSE slotChan

\* The reply consumer takes the next delivery of the reply queue: a
\* registered correlation ID has its Slot fulfilled, any other delivery is
\* discarded.
ConsumeReply ==
    /\ replyQueue # <<>>
    /\ LET d    == Head(replyQueue)
           hits == lookup(d.corr)
       IN  /\ replyQueue' = Tail(replyQueue)
           /\ slotChan' = IF hits = {}
                            THEN slotChan
                            ELSE Fulfill(CHOOSE n \in hits : TRUE, ResponseOf(d))
           /\ replyFirst' =
                [c \in Callers |->
                    \/ replyFirst[c]
                    \/ /\ slotOf[c] \in hits
                       /\ slotChan'[slotOf[c]] # slotChan[slotOf[c]]
                       /\ ~timerFired[c]]
           /\ dropped' = (dropped \/ hits = {})
    /\ UNCHANGED <<serverVars, dispatchVars, pc, mode, method, timeout,
                   slotOf, result, timerFired, overlapped, registry,
                   requestQueue>>

\* A correlation ID the Client never issued: its Slots count from 1.
NeverIssued == getCorrelationID(0)

\* A delivery reaches the reply queue that answers no call of this Client
\* (a reply to a client that used the queue's name before, say); one such
\* delivery is in the queue at a time.
StrayReply ==
    /\ \A i \in 1..Len(replyQueue) : replyQueue[i].corr # NeverIssued
    /\ replyQueue' = Append(replyQueue,
                            [corr |-> NeverIssued, body |-> 0, statusCode |-> 200])
    /\ UNCHANGED <<serverVars, dispatchVars, dropped, pc, mode, method,
                   timeout, slotOf, result, timerFired, replyFirst,
                   overlapped, registry, slotChan, requestQueue>>

(* --------------------------- the dispatch tasks ------------------------ *)

\* One entry of a dispatch task's record of what it called: the call, the
\* extension it was made on (0: none), the status code passed (0: none) and
\* the call's flag (Reject's requeue, Ack's multiple).
Event(op, ext, code, flag) ==
    [op |-> op, ext |-> ext, code |-> code, flag |-> flag]

\* d.Headers["X-Method"]: a string, a value of another type, or no entry.
XMethodHeaders ==
    {[type |-> "string", value |-> name] : name \in MethodNames}
        \cup {[type |-> "int", value |-> ""], [type |-> "absent", value |-> ""]}

\* The ReplyTo of the delivery task t is spawned for: the deliveries come
\* from two clients, each with its own response queue.
ReplyToOf(t) == IF t % 2 = 1 THEN ResponseQueueName ELSE OtherQueueName

NoDelivery ==
    [header  |-> [type |-> "absent", value |-> ""],
     corr    |-> EmptyString,
     replyTo |-> NoReplyTo,
     body    |-> 0]

NoResponse == [body |-> 0, statusCode |-> 0]

\* No dispatch task has been spawned and no extension added.
NoDispatch ==
    /\ extensions = <<>>
    /\ taskPc = [t \in Tasks |-> "none"]
    /\ delivery = [t \in Tasks |-> NoDelivery]
    /\ taskCh = [t \in Tasks |-> "none"]
    /\ events = [t \in Tasks |-> <<>>]
    /\ response = [t \in Tasks |-> NoResponse]
    /\ writeErr = [t \in Tasks |-> "pending"]
    /\ published = <<>>
    /\ down = FALSE

\* AddExtension, called while the server is being set up, before it serves.
AddExtension(e) ==
    /\ ~down
    /\ \A t \in Tasks : taskPc[t] = "none"
    /\ Len(extensions) < MaxExtensions
    /\ \A i \in 1..Len(extensions) : extensions[i] # e
    /\ extensions' = Append(extensions, e)
    /\ UNCHANGED <<clientVars, serverVars, autoAck, taskPc, delivery, taskCh,
                   events, response, writeErr, published, down>>

\* serve: `for d := range s.requestChannel { go s.processRequest(d) }`, one
\* turn: the next delivery of the consumer gets a task of its own.
ServeDispatch(t, header) ==
    /\ ~down
    /\ servePc = "range"
    /\ serveChan \in openChannels
    /\ taskPc[t] = "none"
    /\ \A u \in 1..(t - 1) : taskPc[u] # "none"
    /\ delivery' = [delivery EXCEPT ![t] =
                        [header  |-> header,
                         corr    |-> getCorrelationID(t),
                         replyTo |-> ReplyToOf(t),
                         body    |-> t]]
    /\ taskPc' = [taskPc EXCEPT ![t] = "start"]
    /\ UNCHANGED <<clientVars, serverVars, autoAck, extensions, taskCh,
                   events, response, writeErr, published, down>>

\* d.Reject(false) when the server does not auto-ack.
RejectAlways == <<Event("Reject", 0, 0, FALSE)>>

RejectUnlessAutoAck ==
    IF autoAck THEN <<>> ELSE <<Event("Reject", 0, 0, FALSE)>>

\* processRequest: `d.Headers["X-Method"].(string)`, which panics on a value
\* that is no string, and the lookup in s.methods; a name that is not
\* registered is logged and the delivery rejected.
MethodLookup(t) ==
    /\ ~down
    /\ taskPc[t] = "start"
    /\ IF delivery[t].header.type # "string"
         THEN /\ taskPc' = [taskPc EXCEPT ![t] = "panicked"]
              /\ down' = TRUE
              /\ UNCHANGED events
         ELSE IF delivery[t].header.value \in methods
           THEN /\ taskPc' = [taskPc EXCEPT ![t] = "open"]
                /\ UNCHANGED <<events, down>>
           ELSE /\ events' = [events EXCEPT ![t] = @ \o RejectUnlessAutoAck]
                /\ taskPc' = [taskPc EXCEPT ![t] = "done"]
                /\ UNCHANGED down
    /\ UNCHANGED <<clientVars, serverVars, autoAck, extensions, delivery,
                   taskCh, response, writeErr, published>>

\* processRequest: `ch, err := s.broker.openChannel()`; an error is logged
\* and the task goes on with the nil channel; `defer ch.Close()`.
OpenReplyChannel(t, ok) ==
    /\ ~down
    /\ taskPc[t] = "open"
    /\ taskCh' = [taskCh EXCEPT ![t] = IF ok THEN "open" ELSE "nil"]
    /\ taskPc' = [taskPc EXCEPT ![t] = "invoke"]
    /\ UNCHANGED <<clientVars, serverVars, autoAck, extensions, delivery,
                   events, response, writeErr, published, down>>

\* The user's handler: the request's body, with a status code of its choice.
Handler(d, code) == [body |-> d.body, statusCode |-> code]

pipeThroughIncomingExtensions ==
    [i \in 1..Len(extensions) |-> Event("IncomingRequest", extensions[i], 0, FALSE)]

\* The extensions' OutgoingResponse called from the last registered to the
\* first.
pipeThroughOutgoingExtensionsReversed(res) ==
    [i \in 1..Len(extensions) |->
        Event("OutgoingResponse", extensions[Len(extensions) + 1 - i],
              res.statusCode, FALSE)]

\* ext.OutgoingResponse(req, res, responseTime, res.GetStatusCode()).
pipeThroughOutgoingExtensions(res) ==
    [i \in 1..Len(extensions) |->
        Event("OutgoingResponse", extensions[i], res.statusCode, FALSE)]

\* processRequest: `method(req, res)`, the function Register stored: the
\* incoming extensions, the handler, the outgoing extensions.
InvokeMethod(t, code) ==
    /\ ~down
    /\ taskPc[t] = "invoke"
    /\ LET res == Handler(delivery[t], code)
       IN  /\ response' = [response EXCEPT ![t] = res]
           /\ events' = [events EXCEPT ![t] =
                            @ \o pipeThroughIncomingExtensions
                              \o <<Event("Handler", 0, 0, FALSE)>>
                              \o pipeThroughOutgoingExtensions(res)]
    /\ taskPc' = [taskPc EXCEPT ![t] = "write"]
    /\ UNCHANGED <<clientVars, serverVars, autoAck, extensions, delivery,
                   taskCh, writeErr, published, down>>

\* The routing key of responseWriter.Write's publish.
WriteKey(d) == d.replyTo

\* A Write that acknowledges the delivery whether or not its publish
\* succeeded.
WriteCallsAckAlways(ok) ==
    (IF ok THEN <<Event("Publish", 0, 0, FALSE)>> ELSE <<>>)
        \o (IF autoAck THEN <<>> ELSE <<Event("Ack", 0, 0, FALSE)>>)

\* responseWriter.Write from its Publish on: a failed publish returns; a
\* successful one is followed by delivery.Ack(false) unless auto-ack is on.
WriteCalls(ok) ==
    IF ok
      THEN <<Event("Publish", 0, 0, FALSE)>>
              \o (IF autoAck THEN <<>> ELSE <<Event("Ack", 0, 0, FALSE)>>)
      ELSE <<>>

\* processRequest: `err = resWriter.Write(res)`; the error is logged.
Write(t, ok) ==
    /\ ~down
    /\ taskPc[t] = "write"
    /\ IF taskCh[t] = "nil"
         THEN /\ writeErr' = [writeErr EXCEPT ![t] = "ErrNilPublishChannel"]
              /\ UNCHANGED <<events, published>>
         ELSE /\ writeErr' = [writeErr EXCEPT ![t] = IF ok THEN "nil" ELSE "ErrPublish"]
              /\ events' = [events EXCEPT ![t] = @ \o WriteCalls(ok)]
              /\ published' =
                    IF ok
                      THEN Append(published,
                                  [key  |-> WriteKey(delivery[t]),
                                   msg  |-> ReplyPublishing(delivery[t], response[t]),
                                   task |-> t])
                      ELSE published
    /\ taskPc' = [taskPc EXCEPT ![t] = "return"]
    /\ UNCHANGED <<clientVars, serverVars, autoAck, extensions, delivery,
                   taskCh, response, down>>

\* processRequest returns: the deferred `ch.Close()`, which panics on the
\* nil channel a failed openChannel left.
TaskReturn(t) ==
    /\ ~down
    /\ taskPc[t] = "return"
    /\ IF taskCh[t] = "nil"
         THEN /\ taskPc' = [taskPc EXCEPT ![t] = "panicked"]
              /\ down' = TRUE
              /\ UNCHANGED taskCh
         ELSE /\ taskCh' = [taskCh EXCEPT ![t] = "closed"]
              /\ taskPc' = [taskPc EXCEPT ![t] = "done"]
              /\ UNCHANGED down
    /\ UNCHANGED <<clientVars, serverVars, autoAck, extensions, delivery,
                   events, response, writeErr, published>>

DispatchNext ==
    \/ \E e \in Extensions : AddExtension(e)
    \/ \E t \in Tasks, header \in XMethodHeaders : ServeDispatch(t, header)
    \/ \E t \in Tasks : MethodLookup(t)
    \/ \E t \in Tasks, ok \in BOOLEAN : OpenReplyChannel(t, ok)
    \/ \E t \in Tasks, code \in StatusCodes : InvokeMethod(t, code)
    \/ \E t \in Tasks, ok \in BOOLEAN : Write(t, ok)
    \/ \E t \in Tasks : TaskReturn(t)

(* ------------------------------ the client ----------------------------- *)

ClientInit ==
    /\ pc = [c \in Callers |-> "idle"]
    /\ mode = [c \in Callers |-> "none"]
    /\ method = [c \in Callers |-> ""]
    /\ timeout = [c \in Callers |-> 0]
    /\ slotOf = [c \in Callers |-> 0]
    /\ result = [c \in Callers |-> NoResult]
    /\ timerFired = [c \in Callers |-> FALSE]
    /\ replyFirst = [c \in Callers |-> FALSE]
    /\ overlapped = FALSE
    /\ registry = {}
    /\ slotChan = <<>>
    /\ requestQueue = <<>>
    /\ replyQueue = <<>>
    /\ dropped = FALSE

Next ==
    \/ \E c \in Callers, kind \in Modes, name \in MethodNames :
          Call(c, kind, name)
    \/ \E c \in Callers : AsyncNewSlot(c)
    \/ \E c \in Callers : AsyncPublish(c)
    \/ \E c \in Callers : TimerFire(c)
    \/ \E c \in Callers : SyncResponse(c)
    \/ \E c \in Callers : SyncTimedOut(c)
    \/ \E c \in Callers : Void(c)
    \/ \E c \in Callers : SlotDispose(c)
    \/ \E i \in 1..Len(requestQueue), outcome \in {"nil", "ErrPublish"} :
          ProcessRequest(i, outcome)
    \/ ConsumeReply

\* NewServer has returned a server: its first setupTopology succeeded on
\* channel 1 and handleReestablishedConnnection is running.
NewServer ==
    /\ closed = FALSE
    /\ topologySet = TRUE
    /\ channel = 1
    /\ requestChannel = 1
    /\ m = "free"
    /\ supPc = "check"
    /\ servePc = "idle"
    /\ serveChan = NilChannel
    /\ closes = <<>>
    /\ notifyLen = 0
    /\ notifyIdx = 0
    /\ receivers = [i \in Subscribers |-> "none"]
    /\ closerPc = "idle"
    /\ sdTaskPc = "none"
    /\ connected = TRUE
    /\ openChannels = {1}
    /\ consumers = {1}
    /\ inbox = <<0>>
    /\ spawned = <<0>>
    /\ delivered = 0
    /\ notifyPending = 0
    /\ losses = 0
    /\ signals = 0
    /\ setups = 0
    /\ lastSetup = "none"
    /\ listenings = 0

\* A client, and a server on which "echo" has been registered, before any
\* delivery has been dispatched.
Init ==
    /\ ClientInit
    /\ NewServer
    /\ methods = {"echo"}
    /\ autoAck = FALSE
    /\ NoDispatch


Spec == Init /\ [][Next]_vars

\* Sync and Async calls with every timeout override; their requests stay in
\* the service's queue, so the Sync calls time out.
TimeoutNext ==
    \/ \E c \in Callers, kind \in {"sync", "async"}, d \in Durations :
          CallWithTimeout(c, kind, d)
    \/ \E c \in Callers : AsyncNewSlot(c)
    \/ \E c \in Callers : AsyncPublish(c)
    \/ \E c \in Callers : TimerFire(c)
    \/ \E c \in Callers : SyncTimedOut(c)

TimeoutSpec == Init /\ [][TimeoutNext]_vars

\* Sync and Async calls of "echo", answered by the server, with stray
\* deliveries arriving in the reply queue.
ReplyNext ==
    \/ \E c \in Callers, kind \in {"sync", "async"} : Call(c, kind, "echo")
    \/ \E c \in Callers : AsyncNewSlot(c)
    \/ \E c \in Callers : AsyncPublish(c)
    \/ \E c \in Callers : TimerFire(c)
    \/ \E c \in Callers : SyncResponse(c)
    \/ \E c \in Callers : SyncTimedOut(c)
    \/ \E c \in Callers : SlotDispose(c)
    \/ \E i \in 1..Len(requestQueue) : ProcessRequest(i, "nil")
    \/ ConsumeReply
    \/ StrayReply

ReplySpec == Init /\ [][ReplyNext]_vars

(* ------------------------------ the broker ----------------------------- *)

\* The process is running: no task has panicked.
Alive == closerPc # "panicked"

\* The consumers of the channels in `gone` are cancelled with them: what
\* they held is dropped and their delivery channels are closed.
DropInbox(gone) ==
    [k \in 1..Len(inbox) |-> IF k \in gone THEN 0 ELSE inbox[k]]

\* The connection to the broker is lost: every channel on it is closed.
ConnectionLost ==
    /\ Alive
    /\ connected
    /\ losses < MaxSignals
    /\ connected' = FALSE
    /\ openChannels' = {}
    /\ inbox' = DropInbox(openChannels)
    /\ losses' = losses + 1
    /\ UNCHANGED <<clientVars, dispatchVars, listenings, methods, closed,
                   topologySet, channel, requestChannel, m, supPc, servePc,
                   serveChan, closes, notifyLen, notifyIdx, receivers,
                   closerPc, sdTaskPc, consumers, spawned, delivered,
                   notifyPending, signals, setups, lastSetup>>

\* The broker has reconnected and sends on the channel NotifyReestablish
\* handed out.
Reestablish ==
    /\ Alive
    /\ ~connected
    /\ connected' = TRUE
    /\ notifyPending' = notifyPending + 1
    /\ UNCHANGED <<clientVars, dispatchVars, listenings, methods, closed,
                   topologySet, channel, requestChannel, m, supPc, servePc,
                   serveChan, closes, notifyLen, notifyIdx, receivers,
                   closerPc, sdTaskPc, openChannels, consumers, inbox,
                   spawned, delivered, losses, signals, setups, lastSetup>>

\* The broker pushes a request to a consumer of the service's queue.
Deliver(k) ==
    /\ Alive
    /\ k \in openChannels \cap consumers
    /\ delivered < MaxDeliveries
    /\ inbox' = [inbox EXCEPT ![k] = @ + 1]
    /\ delivered' = delivered + 1
    /\ UNCHANGED <<clientVars, dispatchVars, listenings, methods, closed,
                   topologySet, channel, requestChannel, m, supPc, servePc,
                   serveChan, closes, notifyLen, notifyIdx, receivers,
                   closerPc, sdTaskPc, connected, openChannels, consumers,
                   spawned, notifyPending, losses, signals, setups,
                   lastSetup>>

(* ------------------------ topology and reconnection -------------------- *)

\* handleReestablishedConnnection: `for !s.closed`.
SupCheck ==
    /\ Alive
    /\ supPc = "check"
    /\ supPc' = IF closed THEN "exit" ELSE "wait"
    /\ UNCHANGED <<clientVars, dispatchVars, listenings, methods, closed,
                   topologySet, channel, requestChannel, m, servePc,
                   serveChan, closes, notifyLen, notifyIdx, receivers,
                   closerPc, sdTaskPc, connected, openChannels, consumers,
                   inbox, spawned, delivered, notifyPending, losses, signals,
                   setups, lastSetup>>

\* A supervising task that calls setupTopology without having received a
\* reestablishment signal.
SupReceiveWithoutSignal ==
    /\ Alive
    /\ supPc = "wait"
    /\ supPc' = "setup"
    /\ UNCHANGED <<clientVars, dispatchVars, listenings, methods, closed,
                   topologySet, channel, requestChannel, m, servePc,
                   serveChan, closes, notifyLen, notifyIdx, receivers,
                   closerPc, sdTaskPc, connected, openChannels, consumers,
                   inbox, spawned, delivered, losses, setups, lastSetup,
                   notifyPending, signals>>

\* handleReestablishedConnnection: `<-notifyCh`, then the call of
\* setupTopology.
SupReceive ==
    /\ Alive
    /\ supPc = "wait"
    /\ notifyPending > 0
    /\ notifyPending' = notifyPending - 1
    /\ signals' = signals + 1
    /\ supPc' = "setup"
    /\ UNCHANGED <<clientVars, dispatchVars, listenings, methods, closed,
                   topologySet, channel, requestChannel, m, servePc,
                   serveChan, closes, notifyLen, notifyIdx, receivers,
                   closerPc, sdTaskPc, connected, openChannels, consumers,
                   inbox, spawned, delivered, losses, setups, lastSetup>>

\* setupTopology: s.m.Lock() and s.channel, err = s.broker.openChannel().
\* An error leaves s.channel nil and returns, unlocking.
SetupOpen(ok) ==
    /\ Alive
    /\ supPc = "setup"
    /\ m = "free"
    /\ setups' = setups + 1
    /\ IF ok
         THEN /\ connected
              /\ channel' = Len(inbox) + 1
              /\ openChannels' = openChannels \cup {Len(inbox) + 1}
              /\ inbox' = Append(inbox, 0)
              /\ spawned' = Append(spawned, 0)
              /\ m' = "supervisor"
              /\ supPc' = "declare"
              /\ UNCHANGED lastSetup
         ELSE /\ channel' = NilChannel
              /\ lastSetup' = "failed"
              /\ supPc' = "check"
              /\ UNCHANGED <<openChannels, inbox, spawned, m>>
    /\ UNCHANGED <<clientVars, dispatchVars, listenings, methods, closed,
                   topologySet, requestChannel, servePc, serveChan, closes,
                   notifyLen, notifyIdx, receivers, closerPc, sdTaskPc,
                   connected, consumers, delivered, notifyPending, losses,
                   signals>>

\* setupTopology: QueueDeclare.  An error closes s.channel and returns.
SetupDeclare(ok) ==
    /\ Alive
    /\ supPc = "declare"
    /\ IF ok
         THEN /\ channel \in openChannels
              /\ supPc' = "consume"
              /\ UNCHANGED <<openChannels, m, lastSetup>>
         ELSE /\ openChannels' = openChannels \ {channel}
              /\ m' = "free"
              /\ lastSetup' = "failed"
              /\ supPc' = "check"
    /\ UNCHANGED <<clientVars, dispatchVars, listenings, methods, closed,
                   topologySet, channel, requestChannel, servePc, serveChan,
                   closes, notifyLen, notifyIdx, receivers, closerPc,
                   sdTaskPc, connected, consumers, inbox, spawned, delivered,
                   notifyPending, losses, signals, setups>>

\* setupTopology: s.requestChannel, err = s.channel.Consume(...).  An error
\* leaves s.requestChannel nil, closes s.channel and returns.
SetupConsume(ok) ==
    /\ Alive
    /\ supPc = "consume"
    /\ IF ok
         THEN /\ channel \in openChannels
              /\ requestChannel' = channel
              /\ consumers' = consumers \cup {channel}
              /\ supPc' = "set"
              /\ UNCHANGED <<openChannels, m, lastSetup>>
         ELSE /\ requestChannel' = NilChannel
              /\ openChannels' = openChannels \ {channel}
              /\ m' = "free"
              /\ lastSetup' = "failed"
              /\ supPc' = "check"
              /\ UNCHANGED consumers
    /\ UNCHANGED <<clientVars, dispatchVars, listenings, methods, closed,
                   topologySet, channel, servePc, serveChan, closes,
                   notifyLen, notifyIdx, receivers, closerPc, sdTaskPc,
                   connected, inbox, spawned, delivered, notifyPending,
                   losses, signals, setups>>

\* setupTopology: s.topologySet = true, and the deferred s.m.Unlock().
SetupDone ==
    /\ Alive
    /\ supPc = "set"
    /\ topologySet' = TRUE
    /\ m' = "free"
    /\ lastSetup' = "ok"
    /\ supPc' = "check"
    /\ UNCHANGED <<clientVars, dispatchVars, listenings, methods, closed,
                   channel, requestChannel, servePc, serveChan, closes,
                   notifyLen, notifyIdx, receivers, closerPc, sdTaskPc,
                   connected, openChannels, consumers, inbox, spawned,
                   delivered, notifyPending, losses, signals, setups>>

(* ---------------------------- the serve loop --------------------------- *)

\* ListenAndServe: the methods are registered, serve starts.
ListenAndServe ==
    /\ Alive
    /\ servePc = "idle"
    /\ servePc' = "loop"
    /\ UNCHANGED <<clientVars, dispatchVars, listenings, methods, closed,
                   topologySet, channel, requestChannel, m, supPc, serveChan,
                   closes, notifyLen, notifyIdx, receivers, closerPc,
                   sdTaskPc, connected, openChannels, consumers, inbox,
                   spawned, delivered, notifyPending, losses, signals, setups,
                   lastSetup>>

\* serve: `for !s.closed`.
ServeLoop ==
    /\ Alive
    /\ servePc = "loop"
    /\ servePc' = IF closed THEN "exit" ELSE "test"
    /\ UNCHANGED <<clientVars, dispatchVars, listenings, methods, closed,
                   topologySet, channel, requestChannel, m, supPc, serveChan,
                   closes, notifyLen, notifyIdx, receivers, closerPc,
                   sdTaskPc, connected, openChannels, consumers, inbox,
                   spawned, delivered, notifyPending, losses, signals, setups,
                   lastSetup>>

\* serve: `if s.topologySet`; when it is not set, time.Sleep(servePollInterval)
\* and the next turn of the loop.
ServeTest ==
    /\ Alive
    /\ servePc = "test"
    /\ servePc' = IF topologySet THEN "listening" ELSE "loop"
    /\ UNCHANGED <<clientVars, dispatchVars, listenings, methods, closed,
                   topologySet, channel, requestChannel, m, supPc, serveChan,
                   closes, notifyLen, notifyIdx, receivers, closerPc,
                   sdTaskPc, connected, openChannels, consumers, inbox,
                   spawned, delivered, notifyPending, losses, signals, setups,
                   lastSetup>>

\* serve: the ServerListening extensions, printRegisteredMethods, and the
\* evaluation of s.requestChannel that `range` does once.
ServeListening ==
    /\ Alive
    /\ servePc = "listening"
    /\ listenings' = listenings + 1
    /\ serveChan' = requestChannel
    /\ servePc' = "range"
    /\ UNCHANGED <<clientVars, dispatchVars, methods, closed, topologySet,
                   channel, requestChannel, m, supPc, closes, notifyLen,
                   notifyIdx, receivers, closerPc, sdTaskPc, connected,
                   openChannels, consumers, inbox, spawned, delivered,
                   notifyPending, losses, signals, setups, lastSetup>>

\* serve: `for d := range s.requestChannel { go s.processRequest(d) }`, one
\* delivery.  A nil channel never delivers and is never closed.
ServeSpawn ==
    /\ Alive
    /\ servePc = "range"
    /\ serveChan # NilChannel
    /\ inbox[serveChan] > 0
    /\ inbox' = [inbox EXCEPT ![serveChan] = @ - 1]
    /\ spawned' = [spawned EXCEPT ![serveChan] = @ + 1]
    /\ UNCHANGED <<clientVars, dispatchVars, listenings, methods, closed,
                   topologySet, channel, requestChannel, m, supPc, servePc,
                   serveChan, closes, notifyLen, notifyIdx, receivers,
                   closerPc, sdTaskPc, connected, openChannels, consumers,
                   delivered, notifyPending, losses, signals, setups,
                   lastSetup>>

\* serve: the channel ranged over is closed and drained: the range ends.
ServeRangeEnd ==
    /\ Alive
    /\ servePc = "range"
    /\ serveChan # NilChannel
    /\ serveChan \notin openChannels
    /\ inbox[serveChan] = 0
    /\ servePc' = "unset"
    /\ UNCHANGED <<clientVars, dispatchVars, listenings, methods, closed,
                   topologySet, channel, requestChannel, m, supPc, serveChan,
                   closes, notifyLen, notifyIdx, receivers, closerPc,
                   sdTaskPc, connected, openChannels, consumers, inbox,
                   spawned, delivered, notifyPending, losses, signals, setups,
                   lastSetup>>

\* serve: `s.topologySet = false`.
ServeUnset ==
    /\ Alive
    /\ servePc = "unset"
    /\ topologySet' = FALSE
    /\ servePc' = "loop"
    /\ UNCHANGED <<clientVars, dispatchVars, listenings, methods, closed,
                   channel, requestChannel, m, supPc, serveChan, closes,
                   notifyLen, notifyIdx, receivers, closerPc, sdTaskPc,
                   connected, openChannels, consumers, inbox, spawned,
                   delivered, notifyPending, losses, signals, setups,
                   lastSetup>>

\* serve: `for _, c := range s.closes` evaluates s.closes once.
ServeLeave ==
    /\ Alive
    /\ servePc = "exit"
    /\ notifyLen' = Len(closes)
    /\ notifyIdx' = 1
    /\ servePc' = "notify"
    /\ UNCHANGED <<clientVars, dispatchVars, listenings, methods, closed,
                   topologySet, channel, requestChannel, m, supPc, serveChan,
                   closes, receivers, closerPc, sdTaskPc, connected,
                   openChannels, consumers, inbox, spawned, delivered,
                   notifyPending, losses, signals, setups, lastSetup>>

\* A task is blocked receiving from receiver r.
Receiving(r) ==
    IF r.owner = "Shutdown"
      THEN sdTaskPc = "subscribed"
      ELSE receivers[r.id] = "receiving"

\* serve: `c <- true` on the next receiver, which is unbuffered: the send
\* completes when a task receives from it.
ServeNotify ==
    /\ Alive
    /\ servePc = "notify"
    /\ notifyIdx <= notifyLen
    /\ Receiving(closes[notifyIdx])
    /\ IF closes[notifyIdx].owner = "Shutdown"
         THEN /\ sdTaskPc' = "got"
              /\ UNCHANGED receivers
         ELSE /\ receivers' = [receivers EXCEPT ![closes[notifyIdx].id] = "signaled"]
              /\ UNCHANGED sdTaskPc
    /\ notifyIdx' = notifyIdx + 1
    /\ UNCHANGED <<clientVars, dispatchVars, listenings, methods, closed,
                   topologySet, channel, requestChannel, m, supPc, servePc,
                   serveChan, closes, notifyLen, closerPc, connected,
                   openChannels, consumers, inbox, spawned, delivered,
                   notifyPending, losses, signals, setups, lastSetup>>

\* serve returns.
ServeReturn ==
    /\ Alive
    /\ servePc = "notify"
    /\ notifyIdx > notifyLen
    /\ servePc' = "done"
    /\ UNCHANGED <<clientVars, dispatchVars, listenings, methods, closed,
                   topologySet, channel, requestChannel, m, supPc, serveChan,
                   closes, notifyLen, notifyIdx, receivers, closerPc,
                   sdTaskPc, connected, openChannels, consumers, inbox,
                   spawned, delivered, notifyPending, losses, signals, setups,
                   lastSetup>>

(* -------------------- NotifyClose, Close and Shutdown ------------------ *)

\* NotifyClose, called before the server is closed by a task that then
\* receives from the receiver (`receives`) or never does.  The subscribers
\* are numbered in the order of their calls.
NotifyClose(i, receives) ==
    /\ Alive
    /\ receivers[i] = "none"
    /\ \A j \in 1..(i - 1) : receivers[j] # "none"
    /\ ~closed
    /\ closes' = Append(closes, [owner |-> "NotifyClose", id |-> i])
    /\ receivers' = [receivers EXCEPT ![i] = IF receives THEN "receiving" ELSE "ignoring"]
    /\ UNCHANGED <<clientVars, dispatchVars, listenings, methods, closed,
                   topologySet, channel, requestChannel, m, supPc, servePc,
                   serveChan, notifyLen, notifyIdx, closerPc, sdTaskPc,
                   connected, openChannels, consumers, inbox, spawned,
                   delivered, notifyPending, losses, signals, setups,
                   lastSetup>>

\* Close, called on a server that serves: `s.closed = true`.
CloseCalled ==
    /\ Alive
    /\ closerPc = "idle"
    /\ servePc # "idle"
    /\ closed' = TRUE
    /\ closerPc' = "close"
    /\ UNCHANGED <<clientVars, dispatchVars, listenings, methods, topologySet,
                   channel, requestChannel, m, supPc, servePc, serveChan,
                   closes, notifyLen, notifyIdx, receivers, sdTaskPc,
                   connected, openChannels, consumers, inbox, spawned,
                   delivered, notifyPending, losses, signals, setups,
                   lastSetup>>

\* Shutdown, called on a server that serves: `ch := make(chan bool)` and the
\* `go func()`.
ShutdownCalled ==
    /\ Alive
    /\ closerPc = "idle"
    /\ servePc # "idle"
    /\ sdTaskPc' = "start"
    /\ closerPc' = "shutdown"
    /\ UNCHANGED <<clientVars, dispatchVars, listenings, methods, closed,
                   topologySet, channel, requestChannel, m, supPc, servePc,
                   serveChan, closes, notifyLen, notifyIdx, receivers,
                   connected, openChannels, consumers, inbox, spawned,
                   delivered, notifyPending, losses, signals, setups,
                   lastSetup>>

\* The task Shutdown spawned: s.NotifyClose().
ShutdownSubscribe ==
    /\ Alive
    /\ sdTaskPc = "start"
    /\ closes' = Append(closes, [owner |-> "Shutdown", id |-> 0])
    /\ sdTaskPc' = "subscribed"
    /\ UNCHANGED <<clientVars, dispatchVars, listenings, methods, closed,
                   topologySet, channel, requestChannel, m, supPc, servePc,
                   serveChan, notifyLen, notifyIdx, receivers, closerPc,
                   connected, openChannels, consumers, inbox, spawned,
                   delivered, notifyPending, losses, signals, setups,
                   lastSetup>>

\* Shutdown: s.Close(), its `s.closed = true`.
ShutdownClose ==
    /\ Alive
    /\ closerPc = "shutdown"
    /\ closed' = TRUE
    /\ closerPc' = "shutdownClose"
    /\ UNCHANGED <<clientVars, dispatchVars, listenings, methods, topologySet,
                   channel, requestChannel, m, supPc, servePc, serveChan,
                   closes, notifyLen, notifyIdx, receivers, sdTaskPc,
                   connected, openChannels, consumers, inbox, spawned,
                   delivered, notifyPending, losses, signals, setups,
                   lastSetup>>

\* Close: `s.channel.Close()`.  On a nil s.channel it panics; otherwise the
\* channel and its consumer are closed, and Close returns.
CloseChannel ==
    /\ Alive
    /\ closerPc \in {"close", "shutdownClose"}
    /\ IF channel = NilChannel
         THEN /\ closerPc' = "panicked"
              /\ UNCHANGED <<openChannels, inbox>>
         ELSE /\ openChannels' = openChannels \ {channel}
              /\ inbox' = DropInbox({channel})
              /\ closerPc' = IF closerPc = "close" THEN "closed" ELSE "shutdownWait"
    /\ UNCHANGED <<clientVars, dispatchVars, listenings, methods, closed,
                   topologySet, channel, requestChannel, m, supPc, servePc,
                   serveChan, closes, notifyLen, notifyIdx, receivers,
                   sdTaskPc, connected, consumers, spawned, delivered,
                   notifyPending, losses, signals, setups, lastSetup>>

\* Shutdown: `<-ch`, meeting the spawned task's `ch <- <-s.NotifyClose()`.
ShutdownReturn ==
    /\ Alive
    /\ closerPc = "shutdownWait"
    /\ sdTaskPc = "got"
    /\ closerPc' = "returned"
    /\ sdTaskPc' = "done"
    /\ UNCHANGED <<clientVars, dispatchVars, listenings, methods, closed,
                   topologySet, channel, requestChannel, m, supPc, servePc,
                   serveChan, closes, notifyLen, notifyIdx, receivers,
                   connected, openChannels, consumers, inbox, spawned,
                   delivered, notifyPending, losses, signals, setups,
                   lastSetup>>


(* ------------------------------ the server ----------------------------- *)

ServerNext ==
    \/ ConnectionLost
    \/ Reestablish
    \/ \E k \in 1..Len(inbox) : Deliver(k)
    \/ SupCheck
    \/ SupReceive
    \/ \E ok \in BOOLEAN : SetupOpen(ok)
    \/ \E ok \in BOOLEAN : SetupDeclare(ok)
    \/ \E ok \in BOOLEAN : SetupConsume(ok)
    \/ SetupDone
    \/ ListenAndServe
    \/ ServeLoop
    \/ ServeTest
    \/ ServeListening
    \/ ServeSpawn
    \/ ServeRangeEnd
    \/ ServeUnset
    \/ ServeLeave
    \/ ServeNotify
    \/ ServeReturn
    \/ \E i \in Subscribers, receives \in BOOLEAN : NotifyClose(i, receives)
    \/ CloseCalled
    \/ ShutdownCalled
    \/ ShutdownSubscribe
    \/ ShutdownClose
    \/ CloseChannel
    \/ ShutdownReturn

ServerSpec == Init /\ [][ServerNext]_vars

\* The server without close subscribers and without Shutdown: the broker,
\* the supervising task, the serve loop and Close.  The subscribers and
\* Shutdown read and write none of the variables setupTopology and its
\* caller read or write.
ReconnectNext ==
    \/ ConnectionLost
    \/ Reestablish
    \/ \E k \in 1..Len(inbox) : Deliver(k)
    \/ SupCheck
    \/ SupReceive
    \/ \E ok \in BOOLEAN : SetupOpen(ok)
    \/ \E ok \in BOOLEAN : SetupDeclare(ok)
    \/ \E ok \in BOOLEAN : SetupConsume(ok)
    \/ SetupDone
    \/ ListenAndServe
    \/ ServeLoop
    \/ ServeTest
    \/ ServeListening
    \/ ServeSpawn
    \/ ServeRangeEnd
    \/ ServeUnset
    \/ ServeLeave
    \/ ServeReturn
    \/ CloseCalled
    \/ CloseChannel

ReconnectSpec == Init /\ [][ReconnectNext]_vars

\* The steps of the server's own tasks, which the Go scheduler runs whenever
\* they can run.  The broker and the callers of the server's methods are
\* under no such obligation.
SupervisorStep ==
    \/ SupCheck
    \/ SupReceive
    \/ \E ok \in BOOLEAN : SetupOpen(ok)
    \/ \E ok \in BOOLEAN : SetupDeclare(ok)
    \/ \E ok \in BOOLEAN : SetupConsume(ok)
    \/ SetupDone

ServeStep ==
    \/ ServeLoop
    \/ ServeTest
    \/ ServeListening
    \/ ServeSpawn
    \/ ServeRangeEnd
    \/ ServeUnset
    \/ ServeLeave
    \/ ServeNotify
    \/ ServeReturn

CloserStep == ShutdownClose \/ CloseChannel \/ ShutdownReturn

FairServerSpec ==
    /\ ServerSpec
    /\ WF_vars(SupervisorStep)
    /\ WF_vars(ServeStep)
    /\ WF_vars(CloserStep)
    /\ WF_vars(ShutdownSubscribe)

FairReconnectSpec ==
    /\ ReconnectSpec
    /\ WF_vars(SupervisorStep)
    /\ WF_vars(ServeStep)
    /\ WF_vars(CloseChannel)

\* The server while serve ranges over the consumer NewServer set up: the
\* state ListenAndServe reaches on a server that was just made.
Serving ==
    /\ closed = FALSE
    /\ topologySet = TRUE
    /\ channel = 1
    /\ requestChannel = 1
    /\ m = "free"
    /\ supPc = "wait"
    /\ servePc = "range"
    /\ serveChan = 1
    /\ closes = <<>>
    /\ notifyLen = 0
    /\ notifyIdx = 0
    /\ receivers = [i \in Subscribers |-> "none"]
    /\ closerPc = "idle"
    /\ sdTaskPc = "none"
    /\ connected = TRUE
    /\ openChannels = {1}
    /\ consumers = {1}
    /\ inbox = <<0>>
    /\ spawned = <<0>>
    /\ delivered = 0
    /\ notifyPending = 0
    /\ losses = 0
    /\ signals = 0
    /\ setups = 0
    /\ lastSetup = "none"
    /\ listenings = 1

\* A serving server, made with either value of Options.AutoAck, and the
\* dispatch tasks it spawns.
DispatchInit ==
    /\ ClientInit
    /\ Serving
    /\ methods = {"echo"}
    /\ autoAck \in BOOLEAN
    /\ NoDispatch

DispatchSpec == DispatchInit /\ [][DispatchNext]_vars

(* ------------------------------ the claims ----------------------------- *)

SyncReturned(c) == mode[c] = "sync" /\ pc[c] = "done"

AsyncError(c) == result[c].err \in {"ErrOpenChannel", "ErrPublish"}

\* C1: once Sync has returned, on any of its exit paths, the registry holds
\* no Slot for the correlation ID the call created.
C1_SyncLeavesNoSlot ==
    \A c \in Callers : SyncReturned(c) => slotOf[c] \notin registry

\* C2: when Async fails it returns no Slot and the Slot it created is not
\* left in the registry.
C2_FailedAsyncLeavesNoSlot ==
    \A c \in Callers :
        (pc[c] = "done" /\ mode[c] \in {"sync", "async"} /\ AsyncError(c))
            => (result[c].ret = <<>> /\ slotOf[c] \notin registry)

\* C3 as stated: a published Sync returns ErrTimedOut only once its timer
\* has fired, and returns the Response whenever the reply reached its Slot
\* before the timer fired.
C3_ReplyBeforeTimerWins ==
    \A c \in Callers :
        (SyncReturned(c) /\ ~AsyncError(c))
            => /\ result[c].err = "ErrTimedOut" => timerFired[c]
               /\ replyFirst[c] => (result[c].err = "nil" /\ result[c].ret # <<>>)

\* What a published Sync has returned: ErrTimedOut and no Response, with the
\* timer fired; or no error and the Response that carries its correlation ID.
C3_Returned(c) ==
    \/ /\ result[c] = Returned(<<>>, "ErrTimedOut")
       /\ timerFired[c]
    \/ /\ result[c].err = "nil"
       /\ Len(result[c].ret) = 1
       /\ result[c].ret[1].corr = getCorrelationID(slotOf[c])

\* The step in which Sync's select decides: with no reply in the Slot it
\* returns ErrTimedOut, and the timer has fired; with a reply in the Slot
\* and the timer not fired it returns that Response and no error.
C3_Decides(c) ==
    (pc[c] = "select" /\ pc'[c] = "done")
        => /\ slotChan[slotOf[c]] = <<>>
                => (result'[c].err = "ErrTimedOut" /\ timerFired[c])
           /\ (slotChan[slotOf[c]] # <<>> /\ ~timerFired[c])
                => result'[c] = Returned(<<Head(slotChan[slotOf[c]])>>, "nil")

\* A waiting Sync is never stuck: its timer fires, and once it has fired the
\* select can return ErrTimedOut, whether or not a reply ever arrives.
C3_CanTimeOut(c) ==
    pc[c] = "select" => ENABLED (TimerFire(c) \/ SyncTimedOut(c))

\* C3 (amended): a published Sync for which no reply arrives returns
\* ErrTimedOut, never a Response, and only after its timer has fired; it
\* returns the Response and no error when the reply is in its Slot and the
\* timer has not fired at the moment its select decides.
C3_SyncTimeoutOrReply ==
    /\ [](\A c \in Callers : (SyncReturned(c) /\ ~AsyncError(c)) => C3_Returned(c))
    /\ [](\A c \in Callers : C3_CanTimeOut(c))
    /\ [][\A c \in Callers : C3_Decides(c)]_vars

\* C3's case: one Sync timed out with no reply in its Slot, another returned
\* the reply that reached its Slot before its timer fired.
C3_Witness ==
    \E c, d \in Callers :
        /\ SyncReturned(c) /\ result[c].err = "ErrTimedOut"
        /\ slotChan[slotOf[c]] = <<>> /\ ~replyFirst[c]
        /\ SyncReturned(d) /\ result[d].err = "nil" /\ replyFirst[d]

\* C4: of two Sync calls outstanding at once, each receives the Response
\* published for its own correlation ID, which answers its own request.
C4_NoCrossDelivery ==
    \A c \in Callers :
        (SyncReturned(c) /\ result[c].err = "nil")
            => /\ result[c].ret[1].corr = getCorrelationID(slotOf[c])
               /\ result[c].ret[1].body = c

\* C4's case: two Sync calls were waiting at once and both got a Response.
C4_Witness ==
    /\ overlapped
    /\ \A c \in Callers : SyncReturned(c) /\ result[c].err = "nil"
    /\ \A c, d \in Callers : c # d => slotOf[c] # slotOf[d]

\* A Void call's step.
VoidReturns(c) == pc[c] = "built" /\ mode[c] = "void" /\ pc'[c] = "done"

\* C5: a Void call leaves the registry and every Slot alone, publishes a
\* request with no correlation ID, reply-to or expiration, and returns the
\* publish error: nil with the request queued, the error with nothing queued.
C5_VoidTouchesNoSlot ==
    [][\A c \in Callers :
        VoidReturns(c)
            => /\ registry' = registry
               /\ slotChan' = slotChan
               /\ slotOf'[c] = 0
               /\ \/ /\ result'[c] = Returned(<<>>, "nil")
                     /\ Len(requestQueue') = Len(requestQueue) + 1
                     /\ LET msg == requestQueue'[Len(requestQueue')]
                        IN  /\ msg.corr = EmptyString
                            /\ msg.replyTo = NoReplyTo
                            /\ msg.expiration = EmptyString
                            /\ msg.method = method[c]
                  \/ /\ result'[c] = Returned(<<>>, "ErrPublish")
                     /\ requestQueue' = requestQueue]_vars

\* C5's case: a Void call has published while a Slot was registered.
C5_Witness ==
    \E c \in Callers :
        /\ mode[c] = "void" /\ pc[c] = "done" /\ result[c].err = "nil"
        /\ registry # {}
        /\ \E i \in 1..Len(requestQueue) : requestQueue[i].body = c

\* The serve loop consumes from consumer k: it is inside the range over it.
Consuming(k) == servePc = "range" /\ serveChan = k

\* A setup run after a reestablishment signal has succeeded, its consumer k
\* is s.requestChannel and is alive, and the server serves and is not closed.
Reestablished(k) ==
    /\ lastSetup = "ok"
    /\ supPc \in {"check", "wait"}
    /\ requestChannel = k
    /\ k \in openChannels
    /\ servePc # "idle"
    /\ ~closed

\* C6: after a reestablishment signal followed by a successful topology
\* setup, the serve loop eventually consumes from the new consumer (unless
\* the server is closed, that consumer is lost in turn, or a later setup
\* replaces it first), with the method registry unchanged.
C6_ServeResumesAfterReestablish ==
    /\ [](methods = {"echo"})
    /\ \A k \in 1..(MaxSignals + 1) :
          [](Reestablished(k)
                => <>(\/ Consuming(k)
                      \/ closed
                      \/ k \notin openChannels
                      \/ requestChannel # k))

\* The last setup run after a reestablishment signal failed, the supervising
\* task has left setupTopology, and the server serves and is not closed.
SetupFailed ==
    /\ lastSetup = "failed"
    /\ supPc \in {"check", "wait"}
    /\ servePc # "idle"
    /\ ~closed

\* C7: once a setup run after a reestablishment signal has failed, the
\* server gets to TopologyLost (topologySet false, the serve loop consuming
\* from no live consumer) unless the next signal is taken or the server is
\* closed first, and the supervising task runs setup only once per signal.
C7_FailedSetupLeavesTopologyLost ==
    /\ [](setups <= signals)
    /\ [](SetupFailed
            => <>(\/ ~SetupFailed
                  \/ /\ ~topologySet
                     /\ ~(servePc = "range" /\ serveChan \in openChannels)))

\* The tasks that are inside setupTopology.
InSetup == IF supPc \in {"declare", "consume", "set"} THEN {"supervisor"} ELSE {}

\* C8: setupTopology is never run by two tasks at once (the mutex is held by
\* the one task inside it and by nobody otherwise), and after construction
\* the setups run never outnumber the reestablishment signals received.
C8_OneSetupPerSignal ==
    /\ Cardinality(InSetup) <= 1
    /\ m = (IF InSetup = {} THEN "free" ELSE "supervisor")
    /\ setups <= signals
    /\ signals <= losses

\* C8's case: two signals were received and each has had its setup run.
C8_Witness == signals = 2 /\ setups = 2 /\ supPc = "wait" /\ lastSetup = "ok"

\* C9: a Shutdown called on a server whose serve loop runs eventually returns.
C9_ShutdownReturns ==
    (closerPc \in {"shutdown", "shutdownClose", "shutdownWait"})
        ~> (closerPc = "returned")

\* C10: once the serve loop has ended after Close, every subscriber that
\* receives on the receiver it got from NotifyClose before the close is
\* eventually signaled, whatever the other subscribers do.
C10_EverySubscriberSignaled ==
    \A i \in Subscribers :
        (receivers[i] = "receiving" /\ servePc \in {"exit", "notify", "done"})
            ~> (receivers[i] = "signaled")

\* The positions in task t's record of its calls named op.
Calls(t, op) == {i \in 1..Len(events[t]) : events[t][i].op = op}

\* The responses task t has published.
PublishedBy(t) == {i \in 1..Len(published) : published[i].task = t}

\* Task t's delivery names, in a string header, a method nobody registered.
UnknownMethod(t) ==
    /\ taskPc[t] # "none"
    /\ delivery[t].header.type = "string"
    /\ delivery[t].header.value \notin methods

\* A task for an unknown method has ended: with auto-ack off it rejected the
\* delivery once, without requeue, and did nothing else; with auto-ack on it
\* did nothing at all. It ran no handler and published no response.
C11_Outcome ==
    \A t \in Tasks :
        (UnknownMethod(t) /\ taskPc[t] = "done") =>
            /\ events[t] = IF autoAck
                             THEN <<>>
                             ELSE <<Event("Reject", 0, 0, FALSE)>>
            /\ Calls(t, "Ack") = {}
            /\ Calls(t, "Handler") = {}
            /\ PublishedBy(t) = {}
            /\ response[t] = NoResponse

\* The step that handles an unknown method ends its task and touches nothing
\* of the server or of the other tasks: serve goes on dispatching.
C11_Step ==
    \A t \in Tasks :
        (UnknownMethod(t) /\ taskPc[t] = "start" /\ taskPc'[t] # "start") =>
            /\ taskPc'[t] = "done"
            /\ down' = down
            /\ serverVars' = serverVars
            /\ published' = published
            /\ \A u \in Tasks \ {t} :
                  /\ taskPc'[u] = taskPc[u]
                  /\ events'[u] = events[u]

\* C11: a delivery naming a method that is not registered runs no handler
\* and publishes no response; with auto-ack off it is rejected exactly once
\* without requeue and never acknowledged, with auto-ack on it is neither
\* acknowledged nor rejected; the server keeps serving other deliveries.
C11_UnknownMethodRejected == []C11_Outcome /\ [][C11_Step]_vars

\* A delivery for an unknown method was rejected and the server answered
\* another delivery.
C11_Witness ==
    /\ ~autoAck
    /\ UnknownMethod(1)
    /\ taskPc[1] = "done"
    /\ events[1] = <<Event("Reject", 0, 0, FALSE)>>
    /\ taskPc[2] = "done"
    /\ PublishedBy(2) # {}

\* C12: Write acknowledges the delivery only when the server is not in
\* auto-ack mode and only after its publish has succeeded; a Write whose
\* publish fails returns that error and neither acknowledges nor rejects;
\* in auto-ack mode Write never acknowledges.
C12_AckOnlyAfterPublish ==
    \A t \in Tasks :
        /\ \A i \in Calls(t, "Ack") :
              /\ ~autoAck
              /\ PublishedBy(t) # {}
              /\ \E j \in Calls(t, "Publish") : j < i
        /\ writeErr[t] = "ErrPublish" =>
              /\ Calls(t, "Ack") = {}
              /\ Calls(t, "Reject") = {}
              /\ PublishedBy(t) = {}
        /\ autoAck => Calls(t, "Ack") = {}

\* One Write published and then acknowledged, another's publish failed.
C12_Witness ==
    /\ ~autoAck
    /\ writeErr[1] = "nil"
    /\ Calls(1, "Ack") # {}
    /\ writeErr[2] = "ErrPublish"

\* C13: a Write with no publish channel returns ErrNilPublishChannel and
\* does nothing else (nothing published, no acknowledgment), and that is
\* all that comes of a dispatch task whose attempt to open the reply
\* channel failed: the task ends with that error and nothing else happens.
C13_NilChannelOnlyFailsWrite ==
    \A t \in Tasks :
        (taskCh[t] = "nil" /\ taskPc[t] \in {"return", "done", "panicked"}) =>
            /\ writeErr[t] = "ErrNilPublishChannel"
            /\ PublishedBy(t) = {}
            /\ Calls(t, "Ack") = {}
            /\ Calls(t, "Reject") = {}
            /\ taskPc[t] # "panicked"
            /\ ~down

\* The positions at which task t called the hook op of extension e.
HookCalls(t, op, e) == {p \in Calls(t, op) : events[t][p].ext = e}

\* Task t called the hook op once on every extension, in registration order.
InRegistrationOrder(t, op) ==
    /\ Cardinality(Calls(t, op)) = Len(extensions)
    /\ \A i \in 1..Len(extensions) :
          Cardinality(HookCalls(t, op, extensions[i])) = 1
    /\ \A i, j \in 1..Len(extensions) :
          i < j => \A p \in HookCalls(t, op, extensions[i]),
                      q \in HookCalls(t, op, extensions[j]) : p < q

\* C14: for every dispatched request of a registered method and every list
\* of extensions, IncomingRequest is called on every extension in
\* registration order before the handler, OutgoingResponse on every
\* extension in the same order after the handler, with the status code the
\* handler left in the Response.
C14_ExtensionsAroundHandler ==
    \A t \in Tasks :
        taskPc[t] \in {"write", "return", "done"} /\ ~UnknownMethod(t) =>
            /\ Cardinality(Calls(t, "Handler")) = 1
            /\ InRegistrationOrder(t, "IncomingRequest")
            /\ InRegistrationOrder(t, "OutgoingResponse")
            /\ \A h \in Calls(t, "Handler") :
                  /\ \A p \in Calls(t, "IncomingRequest") : p < h
                  /\ \A q \in Calls(t, "OutgoingResponse") :
                        /\ h < q
                        /\ events[t][q].code = response[t].statusCode

\* A request went through two extensions, registered as 2 then 1, and its
\* handler answered 500.
C14_Witness ==
    /\ extensions = <<2, 1>>
    /\ taskPc[1] = "done"
    /\ Calls(1, "Handler") # {}
    /\ response[1].statusCode = 500
    /\ taskPc[2] = "done"
    /\ response[2].statusCode = 200

\* The consumers whose setupTopology has returned nil: NewServer's and those
\* of the reestablishments that succeeded.
Established ==
    {k \in consumers : ~(supPc = "set" /\ channel = k)}

\* C15: the ServerListening hook fires exactly once for each successful
\* topology setup, and before serve spawns a dispatch task for a delivery
\* of that setup's consumer: it never fires more often than setups have
\* succeeded, and when a delivery of a consumer is dispatched it has fired
\* for that consumer's setup and for each one before it.
C15_ListeningOncePerSetup ==
    /\ listenings <= Cardinality(Established)
    /\ \A k \in consumers :
          spawned[k] > 0 =>
              listenings >= Cardinality({j \in Established : j <= k})

\* Task t's delivery has no X-Method header, or one that is no string.
MalformedHeader(t) ==
    /\ taskPc[t] # "none"
    /\ delivery[t].header.type # "string"

\* C16: a delivery whose X-Method header is missing or is not a string
\* makes only its own dispatch task fail: the server process stays up, and
\* the other tasks go on (each one that has not ended can take its next
\* step, and serve can dispatch the next delivery).
C16_MalformedHeaderFailsOnlyItsTask ==
    \A t \in Tasks :
        (MalformedHeader(t) /\ taskPc[t] = "panicked") =>
            /\ ~down
            /\ \A u \in Tasks \ {t} :
                  /\ taskPc[u] = "none" =>
                        ENABLED (\E header \in XMethodHeaders :
                                    ServeDispatch(u, header))
                  /\ taskPc[u] = "start" => ENABLED MethodLookup(u)
                  /\ taskPc[u] = "write" => ENABLED Write(u, TRUE)

\* The delivery at the head of the reply queue names no registered Slot: its
\* Slot was disposed, or its correlation ID was never issued.
Unmatched ==
    /\ replyQueue # <<>>
    /\ \A n \in registry : getCorrelationID(n) # Head(replyQueue).corr

\* The reply consumer takes an unmatched delivery: nothing but the queue
\* changes.
C17_Dropped ==
    (Unmatched /\ replyQueue' = Tail(replyQueue)) =>
        /\ registry' = registry
        /\ slotChan' = slotChan
        /\ result' = result
        /\ pc' = pc

\* After a drop the reply consumer still completes Slots: a delivery for a
\* registered Slot whose channel is empty is put into that channel.
C17_LaterCompleted ==
    (dropped /\ ~Unmatched /\ replyQueue # <<>>
        /\ replyQueue' = Tail(replyQueue)) =>
        \A n \in registry :
            (getCorrelationID(n) = Head(replyQueue).corr /\ slotChan[n] = <<>>)
                => slotChan'[n] = <<ResponseOf(Head(replyQueue))>>

\* C17: a reply for a correlation ID whose Slot was disposed, or that was
\* never issued, is dropped without effect: the registry is unchanged and no
\* caller receives it; the reply consumer never blocks on a delivery and
\* goes on to complete the Slots of later replies.
C17_UnmatchedReplyDropped ==
    /\ [][C17_Dropped /\ C17_LaterCompleted]_vars
    /\ [](replyQueue # <<>> => ENABLED ConsumeReply)

\* A reply was dropped; one Sync call has timed out, and another has
\* returned the Response of its own reply.
C17_Witness ==
    /\ dropped
    /\ \E c \in Callers : mode[c] = "sync" /\ result[c].err = "ErrTimedOut"
    /\ \E c \in Callers :
          /\ mode[c] = "sync"
          /\ result[c].err = "nil"
          /\ result[c].ret = <<[body |-> c, statusCode |-> 200,
                                corr |-> getCorrelationID(slotOf[c])]>>

\* serve has left its `for !s.closed` loop.
ServeLeft == servePc \in {"exit", "notify", "done"}

\* C18: once Close has been called the server stops dispatching for good:
\* whatever the interleaving of Close with serve and the supervising task,
\* serve eventually leaves its loop (unless Close itself panicked and took
\* the process down).
C18_CloseStopsServe == closed ~> (ServeLeft \/ ~Alive)

\* The dispatch tasks serve has spawned.
Spawned == {t \in Tasks : taskPc[t] # "none"}

\* C19: each delivery serve consumes gets one dispatch task of its own, which
\* calls the handler at most once and publishes at most one response; every
\* response published carries the correlation ID of the delivery that caused
\* it and goes to that delivery's reply-to queue, however many tasks run at
\* once.
C19_OneResponsePerDelivery ==
    /\ \A t, u \in Spawned : delivery[t].corr = delivery[u].corr => t = u
    /\ \A t \in Tasks :
          /\ Cardinality(Calls(t, "Handler")) <= 1
          /\ Cardinality(Calls(t, "Publish")) <= 1
          /\ Cardinality(PublishedBy(t)) <= 1
    /\ \A i \in 1..Len(published) :
          /\ published[i].task \in Spawned
          /\ published[i].msg.corr = delivery[published[i].task].corr
          /\ published[i].key = delivery[published[i].task].replyTo
          /\ published[i].msg.body = response[published[i].task].body

\* Two tasks are about to return at once and both have published, the second
\* delivery's response first.
C19_Witness ==
    /\ Len(published) = 2
    /\ published[1].task = 2
    /\ published[2].task = 1
    /\ published[1].key = OtherQueueName
    /\ published[2].key = ResponseQueueName
    /\ taskPc[1] = "return"
    /\ taskPc[2] = "return"

\* The number a string of decimal digits denotes: how the broker reads the
\* Expiration of a message.
RECURSIVE ParseInt(_)
ParseInt(digits) ==
    IF digits = <<>>
      THEN 0
      ELSE 10 * ParseInt(SubSeq(digits, 1, Len(digits) - 1))
              + digits[Len(digits)]

\* The timeout the claim gives a call: its override when that is greater
\* than zero, the Client's default TTL otherwise.
EffectiveTimeout(c) ==
    IF timeout[c] > 0 THEN timeout[c] ELSE defaultTTL

\* C20: the effective timeout of a call is its own timeout when that was set
\* to more than zero and the Client's default TTL otherwise; the Expiration
\* Async publishes is that duration in whole milliseconds, rounded down,
\* and the timer of Sync runs for that same duration.
C20_ExpirationIsEffectiveTimeout ==
    /\ \A c \in Callers :
          pc[c] # "idle" => getTimeout(c) = EffectiveTimeout(c)
    /\ \A i \in 1..Len(requestQueue) :
          LET c  == requestQueue[i].body
              ms == ParseInt(requestQueue[i].expiration)
          IN  /\ requestQueue[i].expiration # EmptyString
              /\ ms * Millisecond <= EffectiveTimeout(c)
              /\ EffectiveTimeout(c) < (ms + 1) * Millisecond

\* One call overrode the timeout with 12 ms and a nanosecond and published
\* an Expiration of "12"; the other's override of zero was ignored, it
\* published the default TTL, "2", and timed out.
C20_Witness ==
    /\ Len(requestQueue) = 2
    /\ \E i \in 1..2 :
          /\ timeout[requestQueue[i].body] = 12 * Millisecond + 1
          /\ requestQueue[i].expiration = <<1, 2>>
    /\ \E i \in 1..2 :
          /\ timeout[requestQueue[i].body] = 0
          /\ requestQueue[i].expiration = <<2>>
          /\ result[requestQueue[i].body].err = "ErrTimedOut"

====
